---------------------------- MODULE Spec2Model ----------------------------
(***************************************************************************)
(* Retrieval pipeline of ytken/yandexgpt_api_interaction:                  *)
(*   rag_day_16/text_to_embedding.py   YandexDocumentIndexer               *)
(*   rag_day_17/rag_classes.py         YandexRAGSystem                     *)
(*   rag_day_18/rag_request_with_relevance.py  RAGWithRelevanceFilter      *)
(*                                                                         *)
(* Texts are sequences of one-character strings.  Positions follow Python: *)
(* they count from 0, and a slice bound may be negative or past the end.   *)
(***************************************************************************)
EXTENDS Integers, Sequences, FiniteSets, TLC

(***************************************************************************)
(* Bounds of the model.                                                    *)
(***************************************************************************)
MaxTextLen == 6
MaxChunkSize == 5

\* The same, for the specification termination is checked under.
MaxFairTextLen == 4
MaxFairChunkSize == 3

\* The same, for the documents an index is built from.
MaxDocTextLen == 4
MaxDocChunkSize == 3

\* The characters a source text is made of: a letter, a sentence terminator
\* and a whitespace character.
Chars == {"a", ".", " "}

Whitespace == {" ", "\n", "\t"}

TextsUpTo(n) == UNION {[1..k -> Chars] : k \in 0..n}

\* The number of iterations recorded in chunks and windows: more than any
\* run of the loop that ends takes (DoneWindowsComplete).  A loop that runs
\* on records its first MaxIter iterations and no more.
MaxIter == MaxTextLen + 1

Max2(a, b) == IF a >= b THEN a ELSE b

Min2(a, b) == IF a <= b THEN a ELSE b

\* |n|
Abs(n) == IF n < 0 THEN -n ELSE n

(***************************************************************************)
(* Python's sequence indexing.                                             *)
(***************************************************************************)
\* A slice bound i of a sequence of length n, as Python's slice.indices
\* adjusts it: negative bounds count from the end, all bounds are clamped.
PyIdx(i, n) ==
  IF i < 0 THEN Max2(i + n, 0) ELSE Min2(i, n)

\* s[i:j]
Slice(s, i, j) ==
  LET a == PyIdx(i, Len(s))
      b == PyIdx(j, Len(s))
  IN IF a >= b THEN <<>> ELSE SubSeq(s, a + 1, b)

\* The 0-based positions s[i:j] is made of.
SlicePositions(s, i, j) ==
  {p \in 0..(Len(s) - 1) : PyIdx(i, Len(s)) <= p /\ p < PyIdx(j, Len(s))}

\* s.rfind(sub, i, j): the highest position at which sub lies wholly inside
\* s[i:j], or -1.
RFind(s, sub, i, j) ==
  LET a == PyIdx(i, Len(s))
      b == PyIdx(j, Len(s))
      hits == {p \in a..(b - Len(sub)) : SubSeq(s, p + 1, p + Len(sub)) = sub}
  IN IF hits = {} THEN -1 ELSE CHOOSE p \in hits : \A q \in hits : q <= p

\* s.lstrip()
RECURSIVE LStrip(_)
LStrip(s) ==
  IF s # <<>> /\ Head(s) \in Whitespace THEN LStrip(Tail(s)) ELSE s

\* s.rstrip()
RECURSIVE RStrip(_)
RStrip(s) ==
  IF s # <<>> /\ s[Len(s)] \in Whitespace
    THEN RStrip(SubSeq(s, 1, Len(s) - 1))
    ELSE s

\* s.strip()
Strip(s) == RStrip(LStrip(s))

\* re.sub(r'\s+', ' ', s): every maximal run of whitespace becomes one space.
RECURSIVE CollapseWhitespace(_)
CollapseWhitespace(s) ==
  IF s = <<>> THEN <<>>
  ELSE IF Head(s) \in Whitespace
    THEN <<" ">> \o CollapseWhitespace(LStrip(Tail(s)))
    ELSE <<Head(s)>> \o CollapseWhitespace(Tail(s))

\* max(a, b, c, d)
Max4(a, b, c, d) == Max2(Max2(a, b), Max2(c, d))

(***************************************************************************)
(* State.                                                                  *)
(***************************************************************************)
VARIABLES
  op,          \* the operation that was called
  pc,          \* the position inside it
  text,        \* split_text_into_chunks: text
  chunk_size,  \* split_text_into_chunks: chunk_size
  overlap,     \* split_text_into_chunks: overlap
  start,       \* split_text_into_chunks: start
  chunks,      \* split_text_into_chunks: chunks
  windows,     \* history: the (start, end) of every iteration so far
  total_tokens, \* YandexDocumentIndexer: self.total_tokens
  embeddings,  \* generate_embeddings: embeddings
  emb_i,       \* generate_embeddings: the loop index i
  calls,       \* history: the embedder.run calls of the operation, in order
  index,       \* create_index: index; YandexRAGSystem: self.index
  file,        \* the characters of the index file, once it is written
  loaded,      \* load_index, _load_index: the index returned
  relevance_threshold,  \* RAGWithRelevanceFilter: self.relevance_threshold
  top_k,       \* the top_k the query was called with
  model,       \* ask, ask_with_filter: model
  temperature, \* ask, ask_with_filter: temperature
  max_tokens,  \* ask: max_tokens
  relevant_chunks,  \* ask: relevant_chunks
  query_embedding,  \* search_relevant_chunks, ask_with_filter: query_embedding
  similarities,     \* search_relevant_chunks: similarities
  similar_chunks,   \* ask_with_filter: similar_chunks
  filtered_chunks,  \* ask_with_filter: filtered_chunks
  prompts,     \* history: the prompts the completion service was run with
  result       \* what the query returned

chunkVars == <<text, chunk_size, overlap, start, chunks, windows>>

embedVars == <<total_tokens, embeddings, emb_i, calls>>

\* The arguments of ask and ask_with_filter that configure the completion
\* call, and the local of ask.
askVars == <<model, temperature, max_tokens, relevant_chunks>>

queryVars ==
  <<relevance_threshold, top_k, askVars, query_embedding, similarities, similar_chunks,
    filtered_chunks, prompts, result>>

storeVars == <<file, loaded>>

vars == <<op, pc, chunkVars, embedVars, index, storeVars, queryVars>>

\* A variable that holds no value yet.
None == "None"

\* No retrieval system has been constructed.
NoQuery ==
  /\ relevance_threshold = None
  /\ top_k = None
  /\ model = None
  /\ temperature = None
  /\ max_tokens = None
  /\ relevant_chunks = <<>>
  /\ query_embedding = <<>>
  /\ similarities = <<>>
  /\ similar_chunks = <<>>
  /\ filtered_chunks = <<>>
  /\ prompts = <<>>
  /\ result = None

\* s with x appended, while there is room to record it.
Record(s, x) == IF Len(s) < MaxIter THEN Append(s, x) ELSE s

(***************************************************************************)
(* YandexDocumentIndexer.split_text_into_chunks                            *)
(***************************************************************************)
\* text = re.sub(r'\s+', ' ', text).strip()
Normalize(s) == Strip(CollapseWhitespace(s))

\* The position of the last sentence end inside text[s:e], or -1
\* (SentenceEndDotOnly looks for '. ' alone).
SentenceEndDotOnly(t, s, e) == RFind(t, <<".", " ">>, s, e)
SentenceEnd(t, s, e) ==
  Max4(RFind(t, <<".", " ">>, s, e),
       RFind(t, <<"!", " ">>, s, e),
       RFind(t, <<"?", " ">>, s, e),
       RFind(t, <<"\n">>, s, e))

\* The end of the window that starts at s
\* (WindowEndOneMore cuts at s + size + 1).
WindowEndOneMore(t, s, size) ==
  LET end == s + size + 1
  IN IF end < Len(t) /\ SentenceEnd(t, s, end) # -1
       THEN SentenceEnd(t, s, end) + 1
       ELSE end
WindowEnd(t, s, size) ==
  LET end == s + size
  IN IF end < Len(t) /\ SentenceEnd(t, s, end) # -1
       THEN SentenceEnd(t, s, end) + 1
       ELSE end

\* The start of the window after the one that ends at e.
NextStart(t, e, ov) == IF e < Len(t) THEN e - ov ELSE e

\* Lines 71-72: if chunk: chunks.append(chunk)
\* (KeptAll appends the chunk whatever it is).
KeptAll(cs, chunk) == Record(cs, chunk)
Kept(cs, chunk) == IF chunk # <<>> THEN Record(cs, chunk) ELSE cs

\* Lines 48-51.
SplitBegin ==
  /\ pc = "split"
  /\ text' = Normalize(text)
  /\ chunks' = <<>>
  /\ start' = 0
  /\ windows' = <<>>
  /\ pc' = "while"
  /\ UNCHANGED <<op, chunk_size, overlap, embedVars, index, storeVars, queryVars>>

\* while start < len(text), line 53: the condition holds.
SplitEnter ==
  /\ pc = "while"
  /\ start < Len(text)
  /\ pc' = "window"
  /\ UNCHANGED <<op, chunkVars, embedVars, index, storeVars, queryVars>>

\* The body of the while loop, lines 54-75.
SplitWindow ==
  /\ pc = "window"
  /\ LET end == WindowEnd(text, start, chunk_size)
         chunk == Strip(Slice(text, start, end))
     IN /\ chunks' = Kept(chunks, chunk)
        /\ windows' = Record(windows, [start |-> start, end |-> end])
        /\ start' = NextStart(text, end, overlap)
  /\ pc' = "while"
  /\ UNCHANGED <<op, text, chunk_size, overlap, embedVars, index, storeVars, queryVars>>

\* The loop condition fails: return chunks, line 77.
SplitReturn ==
  /\ pc = "while"
  /\ start >= Len(text)
  /\ pc' = "chunked"
  /\ UNCHANGED <<op, chunkVars, embedVars, index, storeVars, queryVars>>

SplitNext == SplitBegin \/ SplitEnter \/ SplitWindow \/ SplitReturn

\* split_text_into_chunks(text, chunk_size, overlap) is called with any text
\* and any 0 < overlap < chunk_size.
InitSplit ==
  /\ op = "split_text_into_chunks"
  /\ pc = "split"
  /\ text \in TextsUpTo(MaxTextLen)
  /\ chunk_size \in 2..MaxChunkSize
  /\ overlap \in 1..(chunk_size - 1)
  /\ start = 0
  /\ chunks = <<>>
  /\ windows = <<>>
  /\ total_tokens = 0
  /\ embeddings = <<>>
  /\ emb_i = 0
  /\ calls = <<>>
  /\ index = None
  /\ file = None
  /\ loaded = None
  /\ NoQuery

SpecSplit == InitSplit /\ [][SplitNext]_vars

\* The same call, within the bounds termination is checked under.
InitSplitFair ==
  /\ InitSplit
  /\ Len(text) <= MaxFairTextLen
  /\ chunk_size <= MaxFairChunkSize

\* The interpreter runs the next statement whenever there is one.
FairSpecSplit == InitSplitFair /\ [][SplitNext]_vars /\ WF_vars(SplitNext)

(***************************************************************************)
(* Claims about split_text_into_chunks.                                    *)
(***************************************************************************)
\* The windows recorded so far are all the iterations the loop has run.
WindowsComplete == Len(windows) < MaxIter

\* Every run of the loop that ends is recorded whole.
DoneWindowsComplete == pc = "chunked" => WindowsComplete

\* C1: the window starts visited by split_text_into_chunks strictly
\* increase: the start of each window after the first is greater than the
\* start of the window before it, also after a window that was shortened to
\* a sentence boundary.
C1_StartsStrictlyIncrease ==
  \A i \in 1..(Len(windows) - 1) : windows[i + 1].start > windows[i].start

\* C2: split_text_into_chunks terminates: the window eventually reaches the
\* end of the normalized text, the loop stops and the chunks are returned.
C2_SplitTerminates == <>(pc = "chunked")

\* The positions of the normalized text inside the i-th window, text[start:end].
WindowPositions(i) == SlicePositions(text, windows[i].start, windows[i].end)

\* C3: when split_text_into_chunks returns, its windows taken in order cover
\* the normalized text: the first starts at 0, the last ends at or beyond
\* the end of the text, each next window starts no later than the previous
\* one ends and shares exactly overlap characters with it, and no character
\* of the text is outside every window.
C3_WindowsCoverText ==
  (pc = "chunked" /\ WindowsComplete /\ text # <<>>) =>
    /\ windows # <<>>
    /\ windows[1].start = 0
    /\ windows[Len(windows)].end >= Len(text)
    /\ \A i \in 1..(Len(windows) - 1) :
         /\ windows[i + 1].start <= windows[i].end
         /\ Cardinality(WindowPositions(i) \cap WindowPositions(i + 1)) = overlap
    /\ \A p \in 0..(Len(text) - 1) :
         \E i \in 1..Len(windows) : p \in WindowPositions(i)

(***************************************************************************)
(* The embedding service.                                                  *)
(***************************************************************************)
\* What embedder.run can return: a vector and the tokens it used.
EmbedResults ==
  { [ok |-> TRUE, embedding |-> <<10, 0>>, tokens |-> 1, error |-> "none"],
    [ok |-> TRUE, embedding |-> <<0, 10>>, tokens |-> 2, error |-> "none"] }

\* embedder.run raised because of the network or the service: there is no
\* result.
Failed == [ok |-> FALSE, embedding |-> <<>>, tokens |-> 0, error |-> "service"]

\* embedder.run raised because the credentials or the configuration were
\* refused.
Denied == [ok |-> FALSE, embedding |-> <<>>, tokens |-> 0, error |-> "authentication"]

EmbedOutcomes == EmbedResults \cup {Failed, Denied}

(***************************************************************************)
(* YandexDocumentIndexer.generate_embeddings                               *)
(***************************************************************************)
\* Line 106: embeddings.append(embedding_vector)
AfterSuccess(embs, res) == Append(embs, res.embedding)

\* Line 118: embeddings.append([])
AfterFailureSkip(embs) == embs
AfterFailure(embs) == Append(embs, <<>>)

\* The operations that build an index.
IndexOps == {"create_index", "process_file"}

\* Lines 122-124: the outer handler prints and re-raises
\* (OuterHandlerSwallows goes on to return embeddings instead).
OuterHandlerSwallows == "embedded"
OuterHandler == "raised"

\* Lines 93-97: the embedder is obtained, or text_embeddings raises and the
\* outer handler re-raises (lines 122-124).
EmbedBegin ==
  /\ pc = "chunked"
  /\ op \in IndexOps
  /\ embeddings' = <<>>
  /\ emb_i' = 0
  /\ calls' = <<>>
  /\ \/ pc' = "embed"
     \/ pc' = OuterHandler
  /\ UNCHANGED <<op, chunkVars, total_tokens, index, storeVars, queryVars>>

\* One iteration of the for loop, lines 99-118: chunk i is embedded, or the
\* call raises and the handler of lines 115-118 records an empty vector.
EmbedRun ==
  /\ pc = "embed"
  /\ emb_i < Len(chunks)
  /\ \E outcome \in EmbedOutcomes :
       /\ calls' = Append(calls, [chunk |-> chunks[emb_i + 1], outcome |-> outcome])
       /\ IF outcome.ok
            THEN /\ embeddings' = AfterSuccess(embeddings, outcome)
                 /\ total_tokens' = total_tokens + outcome.tokens
            ELSE /\ embeddings' = AfterFailure(embeddings)
                 /\ UNCHANGED total_tokens
  /\ emb_i' = emb_i + 1
  /\ UNCHANGED <<op, pc, chunkVars, index, storeVars, queryVars>>

\* The loop is over: return embeddings, line 126.
EmbedReturn ==
  /\ pc = "embed"
  /\ emb_i >= Len(chunks)
  /\ pc' = "embedded"
  /\ UNCHANGED <<op, chunkVars, embedVars, index, storeVars, queryVars>>

(***************************************************************************)
(* YandexDocumentIndexer.create_index                                      *)
(***************************************************************************)
\* sum(len(c) for c in chunks[:n])
\* (SumLenAll is sum(len(c) for c in chunks), whatever n is).
RECURSIVE SumLenAll(_, _)
SumLenAll(cs, n) ==
  IF cs = <<>> THEN 0 ELSE Len(Head(cs)) + SumLenAll(Tail(cs), n)

RECURSIVE SumLen(_, _)
SumLen(cs, n) ==
  IF n <= 0 \/ cs = <<>> THEN 0 ELSE Len(Head(cs)) + SumLen(Tail(cs), n - 1)

\* zip(chunks, embeddings) has the length of the shorter list.
ZipLen(a, b) == Min2(Len(a), Len(b))

\* The model the document embeddings are made with, "text-search-doc".
DocModel ==
  <<"t", "e", "x", "t", "-", "s", "e", "a", "r", "c", "h", "-", "d", "o", "c">>

\* Lines 151-170.
MakeIndex(cks, embs, size, ov, embed_model, tokens) ==
  [ metadata |->
      [ total_chunks |-> Len(cks),
        chunk_size |-> size,
        overlap |-> ov,
        model |-> embed_model,
        embedding_dimension |->
          IF embs # <<>> /\ embs[1] # <<>> THEN Len(embs[1]) ELSE 0,
        total_tokens_used |-> tokens ],
    documents |->
      [ k \in 1..ZipLen(cks, embs) |->
          [ id |-> k - 1,
            text |-> cks[k],
            embedding |-> embs[k],
            char_start |-> SumLen(cks, k - 1),
            char_end |-> SumLen(cks, k) ] ] ]

\* Lines 151-172, once generate_embeddings has returned: the index is
\* returned to the caller, or to process_file (line 237), which saves it.
CreateIndexReturn ==
  /\ pc = "embedded"
  /\ index' = MakeIndex(chunks, embeddings, chunk_size, overlap, DocModel, total_tokens)
  /\ pc' = IF op = "process_file" THEN "save" ELSE "indexed"
  /\ UNCHANGED <<op, chunkVars, embedVars, storeVars, queryVars>>

IndexNext ==
  \/ SplitNext
  \/ EmbedBegin
  \/ EmbedRun
  \/ EmbedReturn
  \/ CreateIndexReturn

\* create_index(text, chunk_size, overlap) is called on a new indexer.
InitIndex ==
  /\ op = "create_index"
  /\ pc = "split"
  /\ text \in TextsUpTo(MaxDocTextLen)
  /\ chunk_size \in 2..MaxDocChunkSize
  /\ overlap \in 1..(chunk_size - 1)
  /\ start = 0
  /\ chunks = <<>>
  /\ windows = <<>>
  /\ total_tokens = 0
  /\ embeddings = <<>>
  /\ emb_i = 0
  /\ calls = <<>>
  /\ index = None
  /\ file = None
  /\ loaded = None
  /\ NoQuery

SpecIndex == InitIndex /\ [][IndexNext]_vars

(***************************************************************************)
(* Claims about generate_embeddings and create_index.                      *)
(***************************************************************************)
\* The entry generate_embeddings records for the k-th call of embedder.run.
EntryOf(call) == IF call.outcome.ok THEN call.outcome.embedding ELSE <<>>

\* C4: a failure of the embedding call for one passage does not abort the
\* batch: every chunk is still embedded, the list returned has one entry per
\* chunk, entry k is what the call for chunk k gave (empty exactly when that
\* call failed), and create_index stores entry k with chunk k.
C4_OneEntryPerChunk ==
  /\ pc \in {"embedded", "indexed"} =>
       /\ Len(embeddings) = Len(chunks)
       /\ Len(calls) = Len(chunks)
       /\ \A k \in 1..Len(chunks) :
            /\ calls[k].chunk = chunks[k]
            /\ embeddings[k] = EntryOf(calls[k])
            /\ (embeddings[k] = <<>>) <=> ~calls[k].outcome.ok
  /\ pc = "indexed" =>
       /\ Len(index.documents) = Len(chunks)
       /\ \A k \in 1..Len(chunks) :
            /\ index.documents[k].id = k - 1
            /\ index.documents[k].text = chunks[k]
            /\ index.documents[k].embedding = EntryOf(calls[k])

\* An index is built although the call for the first chunk failed and the
\* call for a later chunk succeeded.
C4_Witness ==
  /\ pc = "indexed"
  /\ Len(chunks) >= 2
  /\ ~calls[1].outcome.ok
  /\ calls[2].outcome.ok
  /\ index.documents[1].embedding = <<>>
  /\ index.documents[2].embedding # <<>>

(***************************************************************************)
(* YandexRAGSystem and RAGWithRelevanceFilter: the loaded index.           *)
(*                                                                         *)
(* A float is modelled in thousandths: a similarity or a threshold of 0.5  *)
(* is the integer 500.                                                     *)
(***************************************************************************)
MaxDocs == 3
MaxTopK == 3

\* 1.0 in thousandths.
One == 1000

\* The embeddings a stored passage can have; an empty one is a failed call.
DocEmbeddings == {<<10, 0>>, <<0, 10>>, <<7, 7>>, <<-10, 0>>, <<>>}

\* What the query-side embedder can return.
QueryEmbeddings == {<<10, 0>>, <<0, 10>>}

\* The thresholds a RAGWithRelevanceFilter is constructed with.
Thresholds == {-One, 500, One}

\* The text of the n chunks of the indexed document.
ChunkTexts(n) == [k \in 1..n |-> <<"a">>]

\* The indexes create_index can have saved, of at most n passages.
Indexes(n) ==
  UNION { { MakeIndex(ChunkTexts(m), embs, 2, 1, DocModel, m) :
              embs \in [1..m -> DocEmbeddings] } : m \in 0..n }

\* Lines 35-36 of rag_classes.py: self.documents = self.index['documents']
documents == index.documents

\* The largest r in lo..hi with r * r <= n, where lo * lo <= n.
RECURSIVE SqrtIn(_, _, _)
SqrtIn(n, lo, hi) ==
  IF lo >= hi THEN lo
  ELSE LET mid == (lo + hi + 1) \div 2
       IN IF mid * mid <= n THEN SqrtIn(n, mid, hi) ELSE SqrtIn(n, lo, mid - 1)

\* The integer part of the square root of n, an integer below 2^31.
Sqrt(n) == SqrtIn(n, 0, Min2(n, 46340))

\* np.dot(vec1, vec2)
RECURSIVE Dot(_, _)
Dot(v1, v2) ==
  IF v1 = <<>> \/ v2 = <<>> THEN 0
  ELSE Head(v1) * Head(v2) + Dot(Tail(v1), Tail(v2))

\* norm1 * norm2 is kept in hundredths.
NormScale == 100

\* np.linalg.norm(vec1) * np.linalg.norm(vec2), in hundredths.
NormProduct(vec1, vec2) ==
  Sqrt(Dot(vec1, vec1) * Dot(vec2, vec2) * NormScale * NormScale)

\* YandexRAGSystem._cosine_similarity, in thousandths, rounded towards 0.
\* A norm is 0 exactly when the vector's sum of squares is 0.
\* (CosineSimilarityProjection divides by norm1 * norm1 instead.)
CosineSimilarityProjection(vec1, vec2) ==
  LET dot == Dot(vec1, vec2)
      quotient == (One * NormScale * Abs(dot)) \div NormProduct(vec1, vec1)
  IN IF Dot(vec1, vec1) = 0 \/ Dot(vec2, vec2) = 0 THEN 0
     ELSE IF dot >= 0 THEN quotient ELSE -quotient
CosineSimilarity(vec1, vec2) ==
  LET dot == Dot(vec1, vec2)
      quotient == (One * NormScale * Abs(dot)) \div NormProduct(vec1, vec2)
  IN IF Dot(vec1, vec1) = 0 \/ Dot(vec2, vec2) = 0 THEN 0
     ELSE IF dot >= 0 THEN quotient ELSE -quotient

\* list.sort(key=..., reverse=True) keeps entries of equal key in their
\* order: the entry at position p of a list with these keys moves behind
\* every entry of greater key and every earlier entry of equal key.
SortedPositionTiesReversed(keys, p) ==
  1 + Cardinality({q \in 1..Len(keys) :
                     keys[q] > keys[p] \/ (keys[q] = keys[p] /\ q > p)})
SortedPosition(keys, p) ==
  1 + Cardinality({q \in 1..Len(keys) :
                     keys[q] > keys[p] \/ (keys[q] = keys[p] /\ q < p)})

\* The list s sorted by descending key, keys[p] being the key of s[p].
SortDescending(s, keys) ==
  [r \in 1..Len(s) |-> s[CHOOSE p \in 1..Len(s) : SortedPosition(keys, p) = r]]

\* s[:k]
TopKAll(s, k) == s
TopKOneMore(s, k) == Slice(s, 0, k + 1)
TopK(s, k) == Slice(s, 0, k)

\* The passages of docs that have an embedding, in their order
\* (WithEmbeddingScoredZero keeps the others too, to be scored 0.0).
WithEmbeddingScoredZero(docs) == docs
RECURSIVE WithEmbedding(_)
WithEmbedding(docs) ==
  IF docs = <<>> THEN <<>>
  ELSE IF Head(docs).embedding = <<>>
    THEN WithEmbedding(Tail(docs))
    ELSE <<Head(docs)>> \o WithEmbedding(Tail(docs))

(***************************************************************************)
(* The query-side embedder and the completion service.                     *)
(***************************************************************************)
QueryOutcomes ==
  {[ok |-> TRUE, embedding |-> v] : v \in QueryEmbeddings}
    \cup {[ok |-> FALSE, embedding |-> <<>>]}

NoUsage == [prompt_tokens |-> 0, completion_tokens |-> 0, total_tokens |-> 0]

\* The usage a completion result reports.
Usage == [input_text_tokens |-> 5, completion_tokens |-> 2, total_tokens |-> 7]

\* llm_model.run(prompt) returns alternatives and (in a result that has the
\* attribute) their usage, or raises.
CompletionOutcomes ==
  { [ok |-> TRUE, alternatives |-> <<[text |-> "answer"], [text |-> "second"]>>,
     has_usage |-> TRUE, usage |-> Usage],
    [ok |-> TRUE, alternatives |-> <<[text |-> "answer"]>>,
     has_usage |-> FALSE, usage |-> None],
    [ok |-> FALSE, alternatives |-> <<>>, has_usage |-> FALSE, usage |-> None] }

\* rag_classes.py line 204 and rag_request_with_relevance.py line 179:
\* result.alternatives[0].text
AnswerText(outcome) == outcome.alternatives[1].text

\* The record of one run of the completion service: the prompt and the
\* configuration it was run with, and what it gave.
Ran(call, outcome) ==
  [ prompt |-> call.prompt,
    model |-> call.model,
    temperature |-> call.temperature,
    max_tokens |-> call.max_tokens,
    outcome |-> outcome ]

\* rag_classes.py lines 207-211.
UsageStats(outcome) ==
  IF outcome.has_usage
    THEN [ prompt_tokens |-> outcome.usage.input_text_tokens,
           completion_tokens |-> outcome.usage.completion_tokens,
           total_tokens |-> outcome.usage.total_tokens ]
    ELSE NoUsage

(***************************************************************************)
(* A query begins: generate_query_embedding, rag_classes.py lines 72-89.   *)
(***************************************************************************)
QueryOps == {"search_relevant_chunks", "ask_with_filter"}

\* The operations whose ranking is that of search_relevant_chunks.
SearchOps == {"search_relevant_chunks", "ask"}

\* The configurations a call can give: the defaults of the signatures
\* (model "yandexgpt", temperature 0.3, max_tokens 2000) and another one.
DefaultMaxTokens == 2000

DefaultConfig ==
  [model |-> "yandexgpt", temperature |-> 300, max_tokens |-> DefaultMaxTokens]

Configs ==
  {DefaultConfig, [model |-> "yandexgpt-lite", temperature |-> 700, max_tokens |-> 100]}

\* Line 85 of rag_classes.py: the model generate_query_embedding asks
\* text_embeddings for, "text-search-query" (QueryModelDocSide is the model
\* the indexer asks for).
QueryModelDocSide == DocModel
QueryModel ==
  <<"t", "e", "x", "t", "-", "s", "e", "a", "r", "c", "h", "-", "q", "u", "e", "r", "y">>

\* One of ops is called on the constructed system with one of configs; an
\* argument the operation does not take is None.  The first thing each of
\* them does is embed the query, which raises when the service fails.
\* There is no system to call when the constructor raised.
Begin(ops, configs) ==
  /\ pc \in {"ready", "returned", "raised"}
  /\ op = "__init__" => pc = "ready"
  /\ \E o \in ops, k \in 0..MaxTopK, config \in configs, outcome \in QueryOutcomes :
       /\ op' = o
       /\ calls' = <<[model |-> QueryModel, outcome |-> outcome]>>
       /\ top_k' = k
       /\ model' = IF o = "search_relevant_chunks" THEN None ELSE config.model
       /\ temperature' = IF o = "search_relevant_chunks" THEN None ELSE config.temperature
       /\ max_tokens' = IF o = "ask" THEN config.max_tokens ELSE None
       /\ IF outcome.ok
            THEN /\ query_embedding' = outcome.embedding
                 /\ pc' = "score"
            ELSE /\ query_embedding' = <<>>
                 /\ pc' = "raised"
  /\ relevant_chunks' = <<>>
  /\ similarities' = <<>>
  /\ similar_chunks' = <<>>
  /\ filtered_chunks' = <<>>
  /\ prompts' = <<>>
  /\ result' = None
  /\ UNCHANGED <<chunkVars, total_tokens, embeddings, emb_i, index, storeVars, relevance_threshold>>

\* search_relevant_chunks(query, top_k) or ask_with_filter(query, top_k) is
\* called as the scripts of the repository call them, with the default
\* model and temperature.
DefaultConfigs == {DefaultConfig}

QueryBegin == Begin(QueryOps, DefaultConfigs)

\* ask(query, top_k, model, temperature, max_tokens) or
\* ask_with_filter(query, top_k, model, temperature) is called.
CallOps == {"ask", "ask_with_filter"}

CallBegin == Begin(CallOps, Configs)

(***************************************************************************)
(* YandexRAGSystem.search_relevant_chunks                                  *)
(***************************************************************************)
\* The fields of a passage that scoring reads.
ScoredFields == {"id", "text", "char_start", "char_end"}

\* Lines 113-124 raise KeyError: a passage has no 'embedding', or has an
\* embedding and lacks a field that the entry is built from.
ScoreRaises(docs) ==
  \E k \in 1..Len(docs) :
    \/ "embedding" \notin DOMAIN docs[k]
    \/ docs[k].embedding # <<>> /\ ~(ScoredFields \subseteq DOMAIN docs[k])

\* Lines 118-124: the entry of one scored passage.
SearchEntry(doc, q) ==
  [ id |-> doc.id,
    text |-> doc.text,
    similarity |-> CosineSimilarity(q, doc.embedding),
    char_start |-> doc.char_start,
    char_end |-> doc.char_end ]

\* Lines 112-124.
SearchScore ==
  /\ pc = "score"
  /\ op \in SearchOps
  /\ IF ScoreRaises(documents)
       THEN /\ pc' = "raised"
            /\ UNCHANGED similarities
       ELSE /\ similarities' =
                 LET scored == WithEmbedding(documents)
                 IN [k \in 1..Len(scored) |-> SearchEntry(scored[k], query_embedding)]
            /\ pc' = "sort"
  /\ UNCHANGED <<op, chunkVars, embedVars, index, storeVars, relevance_threshold, top_k,
                 askVars, query_embedding, similar_chunks, filtered_chunks, prompts,
                 result>>

\* Line 127: the list of entries is sorted (SearchSortInPlace sorts
\* self.documents with it).
SearchSortInPlace ==
  /\ pc = "sort"
  /\ op \in SearchOps
  /\ similarities' =
       SortDescending(similarities,
                      [k \in 1..Len(similarities) |-> similarities[k].similarity])
  /\ index' =
       [index EXCEPT !.documents =
          SortDescending(documents,
                         [k \in 1..Len(documents) |->
                            CosineSimilarity(query_embedding, documents[k].embedding)])]
  /\ pc' = "cut"
  /\ UNCHANGED <<op, chunkVars, embedVars, storeVars, relevance_threshold, top_k,
                 askVars, query_embedding, similar_chunks, filtered_chunks, prompts,
                 result>>
SearchSort ==
  /\ pc = "sort"
  /\ op \in SearchOps
  /\ similarities' =
       SortDescending(similarities,
                      [k \in 1..Len(similarities) |-> similarities[k].similarity])
  /\ pc' = "cut"
  /\ UNCHANGED <<op, chunkVars, embedVars, index, storeVars, relevance_threshold, top_k,
                 askVars, query_embedding, similar_chunks, filtered_chunks, prompts,
                 result>>

\* Lines 130-142: top_results = similarities[:top_k] is returned, to the
\* caller or to ask (line 246).
SearchReturn ==
  /\ pc = "cut"
  /\ op \in SearchOps
  /\ IF op = "ask"
       THEN /\ relevant_chunks' = TopK(similarities, top_k)
            /\ pc' = "branch"
            /\ UNCHANGED result
       ELSE /\ result' = TopK(similarities, top_k)
            /\ pc' = "returned"
            /\ UNCHANGED relevant_chunks
  /\ UNCHANGED <<op, chunkVars, embedVars, index, storeVars, relevance_threshold, top_k,
                 model, temperature, max_tokens, query_embedding, similarities,
                 similar_chunks, filtered_chunks, prompts>>

(***************************************************************************)
(* RAGWithRelevanceFilter                                                  *)
(***************************************************************************)
\* The question asked.
Query == "query"

\* Lines 56-57: the entries of chunks_with_scores whose score reaches the
\* threshold, in their order.
RECURSIVE FilterAbove(_, _)
FilterAbove(chunks_with_scores, threshold) ==
  IF chunks_with_scores = <<>> THEN <<>>
  ELSE IF Head(chunks_with_scores)[2] > threshold
    THEN <<Head(chunks_with_scores)>> \o FilterAbove(Tail(chunks_with_scores), threshold)
    ELSE FilterAbove(Tail(chunks_with_scores), threshold)
RECURSIVE FilterByRelevance(_, _)
FilterByRelevance(chunks_with_scores, threshold) ==
  IF chunks_with_scores = <<>> THEN <<>>
  ELSE IF Head(chunks_with_scores)[2] >= threshold
    THEN <<Head(chunks_with_scores)>>
           \o FilterByRelevance(Tail(chunks_with_scores), threshold)
    ELSE FilterByRelevance(Tail(chunks_with_scores), threshold)

\* Lines 105-113: the entry of one scored passage, a pair (chunk, score).
AskEntry(doc, q) ==
  << [ id |-> doc.id,
       text |-> doc.text,
       char_start |-> doc.char_start,
       char_end |-> doc.char_end ],
     CosineSimilarity(q, doc.embedding) >>

\* Lines 99-113.
AskScore ==
  /\ pc = "score"
  /\ op = "ask_with_filter"
  /\ IF ScoreRaises(documents)
       THEN /\ pc' = "raised"
            /\ UNCHANGED similar_chunks
       ELSE /\ similar_chunks' =
                 LET scored == WithEmbedding(documents)
                 IN [k \in 1..Len(scored) |-> AskEntry(scored[k], query_embedding)]
            /\ pc' = "sort"
  /\ UNCHANGED <<op, chunkVars, embedVars, index, storeVars, relevance_threshold, top_k,
                 askVars, query_embedding, similarities, filtered_chunks, prompts, result>>

\* Line 116.
AskSort ==
  /\ pc = "sort"
  /\ op = "ask_with_filter"
  /\ similar_chunks' =
       SortDescending(similar_chunks,
                      [k \in 1..Len(similar_chunks) |-> similar_chunks[k][2]])
  /\ pc' = "cut"
  /\ UNCHANGED <<op, chunkVars, embedVars, index, storeVars, relevance_threshold, top_k,
                 askVars, query_embedding, similarities, filtered_chunks, prompts, result>>

\* Line 117.
AskTopK ==
  /\ pc = "cut"
  /\ op = "ask_with_filter"
  /\ similar_chunks' = TopK(similar_chunks, top_k)
  /\ pc' = "filter"
  /\ UNCHANGED <<op, chunkVars, embedVars, index, storeVars, relevance_threshold, top_k,
                 askVars, query_embedding, similarities, filtered_chunks, prompts, result>>

\* filter_by_relevance, lines 56-72; inside ask_with_filter (line 127) the
\* branch of lines 130 and 143 on its result follows.
AskFilter ==
  /\ pc = "filter"
  /\ filtered_chunks' = FilterByRelevance(similar_chunks, relevance_threshold)
  /\ IF op = "filter_by_relevance"
       THEN /\ result' = filtered_chunks'
            /\ pc' = "returned"
       ELSE /\ pc' = IF filtered_chunks' = <<>> THEN "fallback" ELSE "generate"
            /\ UNCHANGED result
  /\ UNCHANGED <<op, chunkVars, embedVars, index, storeVars, relevance_threshold, top_k,
                 askVars, query_embedding, similarities, similar_chunks, prompts>>

\* Lines 168-176: the prompt and the configuration of _answer_without_context.
FallbackCall(q) ==
  [ prompt |-> [kind |-> "no document information", fragments |-> <<>>, query |-> q],
    model |-> "yandexgpt",
    temperature |-> 300,
    max_tokens |-> 500 ]

\* Lines 132-140: the result when nothing passed the filter.
UngroundedResultWithChunks(answer, similar, threshold) ==
  [ answer |-> answer,
    context_chunks |-> [k \in 1..Len(similar) |-> similar[k][1]],
    relevance_scores |-> <<>>,
    filtered_out |-> Len(similar),
    usage |-> NoUsage,
    warning |-> [filtered |-> Len(similar), threshold |-> threshold] ]
UngroundedResult(answer, similar, threshold) ==
  [ answer |-> answer,
    context_chunks |-> <<>>,
    relevance_scores |-> <<>>,
    filtered_out |-> Len(similar),
    usage |-> NoUsage,
    warning |-> [filtered |-> Len(similar), threshold |-> threshold] ]

\* Lines 130-140 with _answer_without_context, lines 166-179: the completion
\* service is run once; when it raises, so does ask_with_filter.
AskFallback ==
  /\ pc = "fallback"
  /\ \E outcome \in CompletionOutcomes :
       /\ prompts' = Append(prompts, Ran(FallbackCall(Query), outcome))
       /\ IF outcome.ok
            THEN /\ result' = UngroundedResult(AnswerText(outcome), similar_chunks,
                                               relevance_threshold)
                 /\ pc' = "returned"
            ELSE /\ result' = None
                 /\ pc' = "raised"
  /\ UNCHANGED <<op, chunkVars, embedVars, index, storeVars, relevance_threshold, top_k,
                 askVars, query_embedding, similarities, similar_chunks, filtered_chunks>>

\* Lines 146-154: the entries handed to generate_answer.
ContextChunks(filtered) ==
  [ k \in 1..Len(filtered) |->
      [ id |-> filtered[k][1].id,
        text |-> filtered[k][1].text,
        similarity |-> filtered[k][2],
        char_start |-> filtered[k][1].char_start,
        char_end |-> filtered[k][1].char_end ] ]

\* rag_classes.py lines 165-168: the passages as the context renders them,
\* "Фрагмент {i+1} (релевантность: {similarity}):" and the text.
Fragments(context_chunks) ==
  [ k \in 1..Len(context_chunks) |->
      [ number |-> k,
        similarity |-> context_chunks[k].similarity,
        text |-> context_chunks[k].text ] ]

\* rag_classes.py lines 171-185: the parts of the prompt in the order of the
\* f-string: the opening sentence, "КОНТЕКСТ:" with the passages, "ВОПРОС:"
\* with the query, the "ИНСТРУКЦИИ:" list and the closing "ОТВЕТ:".
PromptParts(q, context_chunks) ==
  << [part |-> "task"],
     [part |-> "context", fragments |-> Fragments(context_chunks)],
     [part |-> "question", query |-> q],
     [part |-> "instructions"],
     [part |-> "answer"] >>

\* rag_classes.py lines 164-197: the prompt and the configuration of
\* generate_answer.
AnswerCall(q, context_chunks, llm, temp, limit) ==
  [ prompt |->
      [ kind |-> "context",
        fragments |-> Fragments(context_chunks),
        parts |-> PromptParts(q, context_chunks),
        query |-> q ],
    model |-> llm,
    temperature |-> temp,
    max_tokens |-> limit ]

\* rag_classes.py lines 204-224: what generate_answer returns.
AnswerResult(outcome, context_chunks, llm, temp) ==
  [ answer |-> AnswerText(outcome),
    context_chunks |-> context_chunks,
    usage |-> UsageStats(outcome),
    model |-> llm,
    temperature |-> temp ]

\* rag_classes.py lines 218-224 and lines 160-162 of ask_with_filter
\* (GroundedResultCountsAll reports every candidate as filtered out).
GroundedResultCountsAll(outcome, context_chunks, llm, temp, similar, filtered, threshold) ==
  [ answer |-> AnswerText(outcome),
    context_chunks |-> context_chunks,
    usage |-> UsageStats(outcome),
    model |-> llm,
    temperature |-> temp,
    filtered_out |-> Len(similar),
    threshold_used |-> threshold,
    relevance_scores |-> [k \in 1..Len(filtered) |-> filtered[k][2]] ]
GroundedResult(outcome, context_chunks, llm, temp, similar, filtered, threshold) ==
  [ answer |-> AnswerText(outcome),
    context_chunks |-> context_chunks,
    usage |-> UsageStats(outcome),
    model |-> llm,
    temperature |-> temp,
    filtered_out |-> Len(similar) - Len(filtered),
    threshold_used |-> threshold,
    relevance_scores |-> [k \in 1..Len(filtered) |-> filtered[k][2]] ]

\* Lines 143-164 with generate_answer, rag_classes.py lines 164-224.
AskGenerate ==
  /\ pc = "generate"
  /\ LET context_chunks == ContextChunks(filtered_chunks)
     IN \E outcome \in CompletionOutcomes :
          /\ prompts' = Append(prompts,
                          Ran(AnswerCall(Query, context_chunks, model, temperature,
                                         DefaultMaxTokens), outcome))
          /\ IF outcome.ok
               THEN /\ result' = GroundedResult(outcome, context_chunks, model,
                                    temperature, similar_chunks, filtered_chunks,
                                    relevance_threshold)
                    /\ pc' = "returned"
               ELSE /\ result' = None
                    /\ pc' = "raised"
  /\ UNCHANGED <<op, chunkVars, embedVars, index, storeVars, relevance_threshold, top_k,
                 askVars, query_embedding, similarities, similar_chunks,
                 filtered_chunks>>

(***************************************************************************)
(* YandexRAGSystem.ask                                                     *)
(***************************************************************************)
\* rag_classes.py lines 249-254: nothing was found.
NotFoundResult(llm) ==
  [ answer |-> "not found",
    context_chunks |-> <<>>,
    usage |-> NoUsage,
    model |-> llm ]

\* rag_classes.py lines 248-259: without relevant chunks the fixed answer
\* is returned; otherwise generate_answer runs the completion service and
\* ask returns its result, or raises when it raises.
AskAnswer ==
  /\ pc = "branch"
  /\ op = "ask"
  /\ IF relevant_chunks = <<>>
       THEN /\ result' = NotFoundResult(model)
            /\ pc' = "returned"
            /\ UNCHANGED prompts
       ELSE \E outcome \in CompletionOutcomes :
              /\ prompts' = Append(prompts,
                              Ran(AnswerCall(Query, relevant_chunks, model,
                                             temperature, max_tokens), outcome))
              /\ IF outcome.ok
                   THEN /\ result' = AnswerResult(outcome, relevant_chunks, model,
                                                  temperature)
                        /\ pc' = "returned"
                   ELSE /\ result' = None
                        /\ pc' = "raised"
  /\ UNCHANGED <<op, chunkVars, embedVars, index, storeVars, relevance_threshold, top_k,
                 askVars, query_embedding, similarities, similar_chunks,
                 filtered_chunks>>

QueryNext ==
  \/ QueryBegin
  \/ SearchScore
  \/ SearchSort
  \/ SearchReturn
  \/ AskScore
  \/ AskSort
  \/ AskTopK
  \/ AskFilter
  \/ AskFallback
  \/ AskGenerate

\* RAGWithRelevanceFilter(index_path, relevance_threshold) has loaded an
\* index that create_index built.
InitQuery ==
  /\ op = "load"
  /\ pc = "ready"
  /\ index \in Indexes(MaxDocs)
  /\ relevance_threshold \in Thresholds
  /\ file = None
  /\ loaded = None
  /\ text = <<>>
  /\ chunk_size = 2
  /\ overlap = 1
  /\ start = 0
  /\ chunks = <<>>
  /\ windows = <<>>
  /\ total_tokens = 0
  /\ embeddings = <<>>
  /\ emb_i = 0
  /\ calls = <<>>
  /\ top_k = None
  /\ model = None
  /\ temperature = None
  /\ max_tokens = None
  /\ relevant_chunks = <<>>
  /\ query_embedding = <<>>
  /\ similarities = <<>>
  /\ similar_chunks = <<>>
  /\ filtered_chunks = <<>>
  /\ prompts = <<>>
  /\ result = None

SpecQuery == InitQuery /\ [][QueryNext]_vars

(***************************************************************************)
(* ask and ask_with_filter called with any configuration.                  *)
(***************************************************************************)
MaxAskDocs == 2

AskNext ==
  \/ CallBegin
  \/ SearchScore
  \/ SearchSort
  \/ SearchReturn
  \/ AskAnswer
  \/ AskScore
  \/ AskSort
  \/ AskTopK
  \/ AskFilter
  \/ AskFallback
  \/ AskGenerate

\* RAGWithRelevanceFilter(index_path, relevance_threshold) has loaded an
\* index that create_index built.
InitAsk ==
  /\ op = "load"
  /\ pc = "ready"
  /\ index \in Indexes(MaxAskDocs)
  /\ relevance_threshold \in Thresholds
  /\ file = None
  /\ loaded = None
  /\ text = <<>>
  /\ chunk_size = 2
  /\ overlap = 1
  /\ start = 0
  /\ chunks = <<>>
  /\ windows = <<>>
  /\ total_tokens = 0
  /\ embeddings = <<>>
  /\ emb_i = 0
  /\ calls = <<>>
  /\ top_k = None
  /\ model = None
  /\ temperature = None
  /\ max_tokens = None
  /\ relevant_chunks = <<>>
  /\ query_embedding = <<>>
  /\ similarities = <<>>
  /\ similar_chunks = <<>>
  /\ filtered_chunks = <<>>
  /\ prompts = <<>>
  /\ result = None

SpecAsk == InitAsk /\ [][AskNext]_vars
(***************************************************************************)
(* filter_by_relevance called on its own, with any list of (chunk, score). *)
(***************************************************************************)
\* The scores an entry can have.
Scores == {-One, 0, 500, 707, One}

\* The lists of n (chunk, score) pairs, the chunks being passages 0..n-1.
ScoredLists(n) ==
  { [k \in 1..n |->
       <<[id |-> k - 1, text |-> <<"a">>, char_start |-> k - 1, char_end |-> k],
         scores[k]>>] : scores \in [1..n -> Scores] }

InitFilter ==
  /\ op = "filter_by_relevance"
  /\ pc = "filter"
  /\ similar_chunks \in UNION {ScoredLists(n) : n \in 0..MaxDocs}
  /\ relevance_threshold \in Thresholds
  /\ index = None
  /\ file = None
  /\ loaded = None
  /\ text = <<>>
  /\ chunk_size = 2
  /\ overlap = 1
  /\ start = 0
  /\ chunks = <<>>
  /\ windows = <<>>
  /\ total_tokens = 0
  /\ embeddings = <<>>
  /\ emb_i = 0
  /\ calls = <<>>
  /\ top_k = None
  /\ model = None
  /\ temperature = None
  /\ max_tokens = None
  /\ relevant_chunks = <<>>
  /\ query_embedding = <<>>
  /\ similarities = <<>>
  /\ filtered_chunks = <<>>
  /\ prompts = <<>>
  /\ result = None

SpecFilter == InitFilter /\ [][AskFilter]_vars

(***************************************************************************)
(* Claims about retrieval.                                                 *)
(***************************************************************************)
\* The passages of the index that are scored: those with an embedding.
ScoredIds == {documents[k].id : k \in {j \in 1..Len(documents) : documents[j].embedding # <<>>}}

\* C6: the ranking computed for a query is sorted by non-increasing
\* similarity, and two passages of equal similarity appear in ascending
\* passage-id order, in search_relevant_chunks and in ask_with_filter alike;
\* the ranking holds every scored passage once.
C6_RankingSorted ==
  /\ (op = "search_relevant_chunks" /\ pc \in {"cut", "returned"}) =>
       /\ {similarities[k].id : k \in 1..Len(similarities)} = ScoredIds
       /\ Len(similarities) = Cardinality(ScoredIds)
       /\ \A j, k \in 1..Len(similarities) :
            j < k =>
              \/ similarities[j].similarity > similarities[k].similarity
              \/ /\ similarities[j].similarity = similarities[k].similarity
                 /\ similarities[j].id < similarities[k].id
  /\ (op = "ask_with_filter" /\ pc = "cut") =>
       /\ {similar_chunks[k][1].id : k \in 1..Len(similar_chunks)} = ScoredIds
       /\ Len(similar_chunks) = Cardinality(ScoredIds)
       /\ \A j, k \in 1..Len(similar_chunks) :
            j < k =>
              \/ similar_chunks[j][2] > similar_chunks[k][2]
              \/ /\ similar_chunks[j][2] = similar_chunks[k][2]
                 /\ similar_chunks[j][1].id < similar_chunks[k][1].id

\* ask_with_filter has ranked three passages: passages 1 and 2 tie ahead of
\* passage 0, which was stored first.
C6_Witness ==
  /\ op = "ask_with_filter"
  /\ pc = "cut"
  /\ Len(similar_chunks) = 3
  /\ similar_chunks[1][1].id = 1
  /\ similar_chunks[2][1].id = 2
  /\ similar_chunks[3][1].id = 0
  /\ similar_chunks[1][2] = similar_chunks[2][2]
  /\ similar_chunks[2][2] > similar_chunks[3][2]

\* The k-th smallest member of a set of numbers.
Nth(S, k) == CHOOSE x \in S : Cardinality({y \in S : y < x}) = k - 1

\* The positions of similar_chunks whose score reaches the threshold.
Admitted == {k \in 1..Len(similar_chunks) : similar_chunks[k][2] >= relevance_threshold}

\* C7: filter_by_relevance returns a subsequence of its input in the same
\* relative order, containing exactly the entries whose similarity is >= the
\* threshold; with threshold -1.0 it returns the input unchanged.
C7_FilterIsSubsequence ==
  (op = "filter_by_relevance" /\ pc = "returned") =>
    /\ Len(result) = Cardinality(Admitted)
    /\ \A j \in 1..Len(result) : result[j] = similar_chunks[Nth(Admitted, j)]
    /\ relevance_threshold = -One => result = similar_chunks

\* An unsorted input loses its middle entry and keeps the two around it.
C7_Witness ==
  /\ op = "filter_by_relevance"
  /\ pc = "returned"
  /\ Len(similar_chunks) = 3
  /\ relevance_threshold = 500
  /\ similar_chunks[1][2] = 500
  /\ similar_chunks[2][2] = 0
  /\ similar_chunks[3][2] = One
  /\ Len(result) = 2

\* C8: the top-k step returns the first k entries of the ranking, k clamped
\* to the number available: its result has length min(k, number of scored
\* passages) and is a prefix of the ranking.
C8_TopKIsClampedPrefix ==
  /\ [](  (op = "search_relevant_chunks" /\ pc = "returned") =>
            /\ Len(result) = Min2(top_k, Cardinality(ScoredIds))
            /\ \A j \in 1..Len(result) : result[j] = similarities[j])
  /\ [][ (op = "ask_with_filter" /\ pc = "cut" /\ pc' = "filter") =>
            /\ Len(similar_chunks') = Min2(top_k, Cardinality(ScoredIds))
            /\ \A j \in 1..Len(similar_chunks') :
                 similar_chunks'[j] = similar_chunks[j] ]_vars

\* search_relevant_chunks returned the first two of three ranked passages.
C8_Witness ==
  /\ op = "search_relevant_chunks"
  /\ pc = "returned"
  /\ top_k = 2
  /\ Len(similarities) = 3
  /\ Len(result) = 2

\* The number of scored passages ranked ahead of passage d for the query:
\* those of greater similarity, and those of equal similarity stored earlier.
RankedAhead(id) ==
  LET sim(k) == CosineSimilarity(query_embedding, documents[k].embedding)
      d == CHOOSE k \in 1..Len(documents) : documents[k].id = id
  IN Cardinality({k \in 1..Len(documents) :
                    /\ documents[k].embedding # <<>>
                    /\ \/ sim(k) > sim(d)
                       \/ sim(k) = sim(d) /\ k < d})

\* C9: in ask_with_filter the top-k cut comes before the threshold: every
\* passage given to generation is one of the k highest-ranked passages,
\* whatever the threshold and however high the similarity of the others.
C9_OnlyTopKReachGeneration ==
  (op = "ask_with_filter" /\ pc \in {"generate", "fallback", "returned"}) =>
    /\ \A j \in 1..Len(filtered_chunks) :
         RankedAhead(filtered_chunks[j][1].id) < top_k
    /\ \A j \in 1..Len(prompts) :
         Len(prompts[j].prompt.fragments) <= top_k
    /\ pc = "returned" =>
         \A j \in 1..Len(result.context_chunks) :
           RankedAhead(result.context_chunks[j].id) < top_k

\* A grounded answer was returned from the two highest-ranked passages while
\* a third passage, ranked below them, also reaches the threshold.
C9_Witness ==
  /\ op = "ask_with_filter"
  /\ pc = "returned"
  /\ top_k = 2
  /\ Len(result.context_chunks) = 2
  /\ \E k \in 1..Len(documents) :
       /\ documents[k].embedding # <<>>
       /\ CosineSimilarity(query_embedding, documents[k].embedding) >= relevance_threshold
       /\ RankedAhead(documents[k].id) >= top_k

C11_QueryNeverRaises ==
  op \in CallOps => pc # "raised"

\* The ids of the entries of a list of scored passages.
IdsOf(entries) == {entries[k].id : k \in 1..Len(entries)}

\* The ids of the (chunk, score) pairs of a list.
PairIdsOf(pairs) == {pairs[k][1].id : k \in 1..Len(pairs)}

\* C12: a passage whose embedding is empty never appears in a ranking: the
\* ranking holds exactly the passages with a non-empty embedding, each once,
\* so a passage with an empty embedding is not given similarity 0, is not
\* returned and is not used for generation.
C12_EmptyEmbeddingNeverRanked ==
  /\ (op \in SearchOps /\ pc \in {"sort", "cut", "branch", "returned"}) =>
       /\ IdsOf(similarities) = ScoredIds
       /\ Len(similarities) = Cardinality(ScoredIds)
  /\ (op = "ask_with_filter" /\ pc \in {"sort", "cut"}) =>
       /\ PairIdsOf(similar_chunks) = ScoredIds
       /\ Len(similar_chunks) = Cardinality(ScoredIds)
  /\ IdsOf(relevant_chunks) \subseteq ScoredIds
  /\ PairIdsOf(similar_chunks) \subseteq ScoredIds
  /\ PairIdsOf(filtered_chunks) \subseteq ScoredIds
  /\ \A j \in 1..Len(prompts) :
       Len(prompts[j].prompt.fragments) <= Cardinality(ScoredIds)
  /\ (op \in CallOps /\ pc = "returned") =>
       IdsOf(result.context_chunks) \subseteq ScoredIds

\* ask returned an answer generated from the one passage that has an
\* embedding, although top_k asked for two and the index holds a second
\* passage, whose embedding is empty.
C12_Witness ==
  /\ op = "ask"
  /\ pc = "returned"
  /\ top_k = 2
  /\ Len(documents) = 2
  /\ documents[1].embedding = <<>>
  /\ documents[2].embedding # <<>>
  /\ Len(prompts) = 1
  /\ IdsOf(result.context_chunks) = {1}

\* One step of a query of ask_with_filter, as the stages Received,
\* EmbeddingQuery, Ranking, Filtering, Generating or GeneratingUngrounded,
\* Answered order them: the call is received and its query embedded
\* (pc' = "score"), the passages are scored, sorted and cut to top_k, the
\* threshold is applied, one of the two generations follows, and the
\* answer is returned.
StageStep ==
  CASE pc \in {"ready", "returned", "raised"} -> pc' = "score"
    [] pc = "score" -> pc' = "sort"
    [] pc = "sort" -> pc' = "cut"
    [] pc = "cut" -> pc' = "filter"
    [] pc = "filter" ->
         \/ pc' = "generate" /\ filtered_chunks' # <<>>
         \/ pc' = "fallback" /\ filtered_chunks' = <<>>
    [] pc \in {"generate", "fallback"} -> pc' = "returned"

\* C17: each query of ask_with_filter goes through the stages in the fixed
\* order Received, EmbeddingQuery, Ranking, Filtering, then Generating
\* (exactly when the filtered set is non-empty) or GeneratingUngrounded
\* (exactly when it is empty), then Answered: every step of a query leads
\* to the next stage, none is skipped or repeated.
C17_StagesInOrder == [][op' = "ask_with_filter" => StageStep]_vars

\* The steps of ask_with_filter that do not end in an exception follow the
\* order of the stages.
StagesInOrderUnlessRaised ==
  [][(op' = "ask_with_filter" /\ pc' # "raised") => StageStep]_vars

\* The configuration generate_answer is given by ask, and by
\* ask_with_filter, which takes no max_tokens and passes none.
CallerConfig ==
  [ model |-> model,
    temperature |-> temperature,
    max_tokens |-> IF op = "ask" THEN max_tokens ELSE DefaultMaxTokens ]

\* C19: answering one query of ask_with_filter calls the completion service
\* exactly once, with the model and the temperature the caller gave, in the
\* grounded path and in the ungrounded fallback path alike; so does ask
\* when it generates an answer, with the caller's max_tokens as well.
C19_OneCompletionCallAsConfigured ==
  /\ (op = "ask_with_filter" /\ pc = "returned") =>
       /\ Len(prompts) = 1
       /\ prompts[1].model = CallerConfig.model
       /\ prompts[1].temperature = CallerConfig.temperature
  /\ (op = "ask" /\ pc = "returned" /\ relevant_chunks # <<>>) =>
       /\ Len(prompts) = 1
       /\ prompts[1].model = CallerConfig.model
       /\ prompts[1].temperature = CallerConfig.temperature
       /\ prompts[1].max_tokens = CallerConfig.max_tokens

\* The grounded path does as C19 says.
GroundedCallAsConfigured ==
  (op = "ask_with_filter" /\ pc = "returned" /\ filtered_chunks # <<>>) =>
    /\ Len(prompts) = 1
    /\ prompts[1].model = CallerConfig.model
    /\ prompts[1].temperature = CallerConfig.temperature
    /\ prompts[1].max_tokens = CallerConfig.max_tokens

\* C20: the answer returned for a query records the token usage of the
\* completion call that produced it: whenever a completion call was made
\* and reported its usage, the answer's prompt_tokens, completion_tokens and
\* total_tokens are the reported ones, and the answer text is the first
\* returned alternative.
C20_AnswerRecordsUsage ==
  (op \in CallOps /\ pc = "returned" /\ prompts # <<>>) =>
    LET outcome == prompts[Len(prompts)].outcome
    IN /\ result.answer = outcome.alternatives[1].text
       /\ outcome.has_usage =>
            /\ result.usage.prompt_tokens = outcome.usage.input_text_tokens
            /\ result.usage.completion_tokens = outcome.usage.completion_tokens
            /\ result.usage.total_tokens = outcome.usage.total_tokens

\* The answers generate_answer produces do as C20 says.
GroundedAnswerRecordsUsage ==
  (op \in CallOps /\ pc = "returned" /\ prompts # <<>>
     /\ prompts[1].prompt.kind = "context") =>
    LET outcome == prompts[1].outcome
    IN /\ result.answer = outcome.alternatives[1].text
       /\ outcome.has_usage =>
            /\ result.usage.prompt_tokens = outcome.usage.input_text_tokens
            /\ result.usage.completion_tokens = outcome.usage.completion_tokens
            /\ result.usage.total_tokens = outcome.usage.total_tokens

(***************************************************************************)
(* json.dump(index, f, ensure_ascii=False, indent=2) and json.load(f).     *)
(*                                                                         *)
(* The file is a sequence of characters; the quoted name of a key is one   *)
(* symbol of it.  An embedding value is a float kept in tenths: 0.7 is 7   *)
(* and is written "0.7".                                                   *)
(***************************************************************************)
DigitChars == <<"0", "1", "2", "3", "4", "5", "6", "7", "8", "9">>

DigitValue(c) == CHOOSE d \in 0..9 : DigitChars[d + 1] = c

IsDigit(c) == \E d \in 0..9 : DigitChars[d + 1] = c

\* The decimal digits of n >= 0.
RECURSIVE Digits(_)
Digits(n) ==
  IF n < 10 THEN <<DigitChars[n + 1]>>
  ELSE Digits(n \div 10) \o <<DigitChars[(n % 10) + 1]>>

\* An int, as json writes it.
EncodeInt(n) == IF n < 0 THEN <<"-">> \o Digits(-n) ELSE Digits(n)

\* A float of x tenths, as json writes it: float.__repr__, which keeps the
\* fraction (EncodeFloatTruncated is the writing that drops it).
EncodeFloatTruncated(x) == EncodeInt(IF x < 0 THEN -(Abs(x) \div 10) ELSE x \div 10)
EncodeFloat(x) ==
  (IF x < 0 THEN <<"-">> ELSE <<>>)
    \o Digits(Abs(x) \div 10) \o <<".">> \o Digits(Abs(x) % 10)

\* The characters of a string between its quotes: a quote, a backslash and
\* a newline are escaped, every other character stands for itself.
RECURSIVE Escape(_)
Escape(str) ==
  IF str = <<>> THEN <<>>
  ELSE (CASE Head(str) = "\"" -> <<"\\", "\"">>
          [] Head(str) = "\\" -> <<"\\", "\\">>
          [] Head(str) = "\n" -> <<"\\", "n">>
          [] OTHER -> <<Head(str)>>) \o Escape(Tail(str))

EncodeString(str) == <<"\"">> \o Escape(str) \o <<"\"">>

\* indent=2: a newline and two spaces for every level of nesting.
NewLine(level) == <<"\n">> \o [k \in 1..(2 * level) |-> " "]

\* The items with sep between each two of them.
RECURSIVE Join(_, _)
Join(items, sep) ==
  IF items = <<>> THEN <<>>
  ELSE IF Len(items) = 1 THEN items[1]
  ELSE items[1] \o sep \o Join(Tail(items), sep)

\* A list of written items, itself at nesting level.
EncodeList(items, level) ==
  IF items = <<>> THEN <<"[", "]">>
  ELSE <<"[">> \o NewLine(level + 1)
         \o Join(items, <<",">> \o NewLine(level + 1))
         \o NewLine(level) \o <<"]">>

\* A dict of <<key, written value>> pairs in insertion order.
EncodeObject(pairs, level) ==
  IF pairs = <<>> THEN <<"{", "}">>
  ELSE <<"{">> \o NewLine(level + 1)
         \o Join([k \in 1..Len(pairs) |-> <<pairs[k][1], ":", " ">> \o pairs[k][2]],
                 <<",">> \o NewLine(level + 1))
         \o NewLine(level) \o <<"}">>

\* index['metadata'], lines 152-159: its keys and written values.
MetadataPairs(m) ==
  << <<"total_chunks", EncodeInt(m.total_chunks)>>,
     <<"chunk_size", EncodeInt(m.chunk_size)>>,
     <<"overlap", EncodeInt(m.overlap)>>,
     <<"model", EncodeString(m.model)>>,
     <<"embedding_dimension", EncodeInt(m.embedding_dimension)>>,
     <<"total_tokens_used", EncodeInt(m.total_tokens_used)>> >>

EncodeMetadata(m, level) == EncodeObject(MetadataPairs(m), level)

\* One entry of index['documents'], lines 161-167: its keys and written
\* values.
DocumentPairs(doc, level) ==
  << <<"id", EncodeInt(doc.id)>>,
     <<"text", EncodeString(doc.text)>>,
     <<"embedding",
       EncodeList([k \in 1..Len(doc.embedding) |-> EncodeFloat(doc.embedding[k])],
                  level + 1)>>,
     <<"char_start", EncodeInt(doc.char_start)>>,
     <<"char_end", EncodeInt(doc.char_end)>> >>

EncodeDocument(doc, level) == EncodeObject(DocumentPairs(doc, level), level)

\* The index, lines 151-170: its keys and written values.
IndexPairs(idx) ==
  << <<"metadata", EncodeMetadata(idx.metadata, 1)>>,
     <<"documents",
       EncodeList([k \in 1..Len(idx.documents) |->
                     EncodeDocument(idx.documents[k], 2)], 1)>> >>

\* json.dump of an index, line 184.
Dumps(idx) == EncodeObject(IndexPairs(idx), 0)

\* The first position from p on that holds no whitespace.
RECURSIVE SkipWhitespace(_, _)
SkipWhitespace(f, p) ==
  IF p <= Len(f) /\ f[p] \in Whitespace THEN SkipWhitespace(f, p + 1) ELSE p

\* The first position from p on that holds no digit.
RECURSIVE DigitsEnd(_, _)
DigitsEnd(f, p) ==
  IF p <= Len(f) /\ IsDigit(f[p]) THEN DigitsEnd(f, p + 1) ELSE p

\* The number the digits f[p..q-1] write.
RECURSIVE DigitsValue(_, _, _)
DigitsValue(f, p, q) ==
  IF p >= q THEN 0 ELSE DigitsValue(f, p, q - 1) * 10 + DigitValue(f[q - 1])

\* A number at p: an int, or with a fraction digit a float in tenths.
ParseNumber(f, p) ==
  LET neg == f[p] = "-"
      p1 == IF neg THEN p + 1 ELSE p
      p2 == DigitsEnd(f, p1)
      whole == DigitsValue(f, p1, p2)
      frac == p2 <= Len(f) /\ f[p2] = "."
      p3 == IF frac THEN DigitsEnd(f, p2 + 1) ELSE p2
      abs == IF frac THEN whole * 10 + DigitsValue(f, p2 + 1, p3) ELSE whole
  IN [val |-> IF neg THEN -abs ELSE abs, pos |-> p3]

\* The characters of a string whose opening quote is before p.
RECURSIVE ParseChars(_, _)
ParseChars(f, p) ==
  IF f[p] = "\"" THEN [val |-> <<>>, pos |-> p + 1]
  ELSE IF f[p] = "\\"
    THEN LET rest == ParseChars(f, p + 2)
         IN [val |-> <<IF f[p + 1] = "n" THEN "\n" ELSE f[p + 1]>> \o rest.val,
             pos |-> rest.pos]
    ELSE LET rest == ParseChars(f, p + 1)
         IN [val |-> <<f[p]>> \o rest.val, pos |-> rest.pos]

\* A value at p: a string, a list, a dict or a number.
RECURSIVE ParseValue(_, _)
RECURSIVE ParseItems(_, _)
RECURSIVE ParsePairs(_, _)
ParseValue(f, p) ==
  CASE f[p] = "\"" -> ParseChars(f, p + 1)
    [] f[p] = "[" -> ParseItems(f, SkipWhitespace(f, p + 1))
    [] f[p] = "{" -> ParsePairs(f, SkipWhitespace(f, p + 1))
    [] OTHER -> ParseNumber(f, p)

\* The items of a list from p up to its closing bracket.
ParseItems(f, p) ==
  IF f[p] = "]" THEN [val |-> <<>>, pos |-> p + 1]
  ELSE LET item == ParseValue(f, p)
           q == SkipWhitespace(f, item.pos)
           rest == ParseItems(f, SkipWhitespace(f, IF f[q] = "," THEN q + 1 ELSE q))
       IN [val |-> <<item.val>> \o rest.val, pos |-> rest.pos]

\* The key: value pairs of a dict from p up to its closing brace; a key
\* that comes again replaces the earlier one.
ParsePairs(f, p) ==
  IF f[p] = "}" THEN [val |-> <<>>, pos |-> p + 1]
  ELSE LET key == f[p]
           colon == SkipWhitespace(f, p + 1)
           item == ParseValue(f, SkipWhitespace(f, colon + 1))
           q == SkipWhitespace(f, item.pos)
           rest == ParsePairs(f, SkipWhitespace(f, IF f[q] = "," THEN q + 1 ELSE q))
       IN [val |-> rest.val @@ (key :> item.val), pos |-> rest.pos]

\* json.load, line 199 and rag_classes.py line 45.
Loads(f) == ParseValue(f, SkipWhitespace(f, 1)).val

(***************************************************************************)
(* save_index, load_index and YandexRAGSystem._load_index                  *)
(***************************************************************************)
MaxStoredDocs == 2

\* The texts a stored passage can have.
StoredTexts == {<<"a">>, <<"\"", "a", " ", ".">>, <<"\\", "n">>}

\* The indexes create_index can return, of at most n passages.
StoredIndexes(n) ==
  UNION { { MakeIndex(cks, embs, 500, 50, DocModel, 12 * m) :
              cks \in [1..m -> StoredTexts], embs \in [1..m -> DocEmbeddings] } :
          m \in 0..n }

\* save_index, lines 183-184.
SaveIndex ==
  /\ pc = "save"
  /\ file' = Dumps(index)
  /\ pc' = "saved"
  /\ UNCHANGED <<op, chunkVars, embedVars, index, loaded, queryVars>>

\* load_index, lines 198-201.
LoadIndex ==
  /\ pc = "saved"
  /\ op' = "load_index"
  /\ loaded' = Loads(file)
  /\ pc' = "loaded"
  /\ UNCHANGED <<chunkVars, embedVars, index, file, queryVars>>

\* YandexRAGSystem._load_index, rag_classes.py lines 44-47.
SystemLoadIndex ==
  /\ pc = "saved"
  /\ op' = "_load_index"
  /\ loaded' = Loads(file)
  /\ pc' = "loaded"
  /\ UNCHANGED <<chunkVars, embedVars, index, file, queryVars>>

StoreNext == SaveIndex \/ LoadIndex \/ SystemLoadIndex

\* save_index(index, path) is called with an index create_index returned.
InitStore ==
  /\ op = "save_index"
  /\ pc = "save"
  /\ index \in StoredIndexes(MaxStoredDocs)
  /\ file = None
  /\ loaded = None
  /\ text = <<>>
  /\ chunk_size = 2
  /\ overlap = 1
  /\ start = 0
  /\ chunks = <<>>
  /\ windows = <<>>
  /\ total_tokens = 0
  /\ embeddings = <<>>
  /\ emb_i = 0
  /\ calls = <<>>
  /\ NoQuery

SpecStore == InitStore /\ [][StoreNext]_vars

\* C5: save_index followed by load_index of the same path returns an index
\* equal to the one saved, field for field: the metadata, the number and
\* order of passages, and every passage's id, text, char_start, char_end
\* and embedding values, empty embeddings included.
C5_SaveLoadRoundTrip ==
  pc = "loaded" =>
    /\ DOMAIN loaded = {"metadata", "documents"}
    /\ loaded.metadata = index.metadata
    /\ Len(loaded.documents) = Len(index.documents)
    /\ \A k \in 1..Len(index.documents) :
         /\ loaded.documents[k].id = index.documents[k].id
         /\ loaded.documents[k].text = index.documents[k].text
         /\ loaded.documents[k].char_start = index.documents[k].char_start
         /\ loaded.documents[k].char_end = index.documents[k].char_end
         /\ loaded.documents[k].embedding = index.documents[k].embedding
    /\ loaded = index

\* An index was saved and loaded whose first passage has an empty embedding
\* and whose second has a text with a quote and an embedding with a
\* negative value.
C5_Witness ==
  /\ pc = "loaded"
  /\ op = "load_index"
  /\ Len(index.documents) = 2
  /\ index.documents[1].embedding = <<>>
  /\ index.documents[2].embedding = <<-10, 0>>
  /\ index.documents[2].text = <<"\"", "a", " ", ".">>
  /\ Len(loaded.documents) = 2

(***************************************************************************)
(* YandexRAGSystem.__init__ and RAGWithRelevanceFilter.__init__ on an      *)
(* index file that may lack a field.                                       *)
(***************************************************************************)
MaxArtifactDocs == 2

\* The embeddings of the passages of an index file.
ArtifactEmbeddings == {<<10, 0>>, <<>>}

\* The indexes an index file is written from, of at most n passages.
ArtifactIndexes(n) ==
  UNION { { MakeIndex(ChunkTexts(m), embs, 2, 1, DocModel, m) :
              embs \in [1..m -> ArtifactEmbeddings] } : m \in 0..n }

\* The pairs without the one of this key.
Without(pairs, key) == SelectSeq(pairs, LAMBDA pair : pair[1] # key)

\* The file of idx with a top-level key left out.
DumpsWithoutTop(idx, key) == EncodeObject(Without(IndexPairs(idx), key), 0)

\* The file of idx with a key of the metadata left out.
DumpsWithoutMetadata(idx, key) ==
  EncodeObject(<< <<"metadata",
                    EncodeObject(Without(MetadataPairs(idx.metadata), key), 1)>>,
                  IndexPairs(idx)[2] >>, 0)

\* The file of idx with a key of passage j left out.
DumpsWithoutPassage(idx, j, key) ==
  EncodeObject(<< IndexPairs(idx)[1],
                  <<"documents",
                    EncodeList([k \in 1..Len(idx.documents) |->
                                  IF k = j
                                    THEN EncodeObject(
                                           Without(DocumentPairs(idx.documents[k], 2),
                                                   key), 2)
                                    ELSE EncodeDocument(idx.documents[k], 2)], 1)>> >>,
               0)

\* The keys create_index gives an index, its metadata and a passage.
IndexFields == {"metadata", "documents"}

MetadataFields ==
  {"total_chunks", "chunk_size", "overlap", "model", "embedding_dimension",
   "total_tokens_used"}

PassageFields == {"id", "text", "embedding", "char_start", "char_end"}

\* The index files given to the constructor: complete ones, and ones that
\* lack one key.
Artifacts(n) ==
  UNION { {Dumps(idx)}
            \cup {DumpsWithoutTop(idx, key) : key \in IndexFields}
            \cup {DumpsWithoutMetadata(idx, key) : key \in MetadataFields}
            \cup {DumpsWithoutPassage(idx, j, key) :
                    j \in 1..Len(idx.documents), key \in PassageFields} :
          idx \in ArtifactIndexes(n) }

\* rag_classes.py lines 35-39 raise KeyError: self.index['documents'] or
\* self.index['metadata']['embedding_dimension'] is not there.
ConstructRaises(idx) ==
  \/ "documents" \notin DOMAIN idx
  \/ "metadata" \notin DOMAIN idx
  \/ "embedding_dimension" \notin DOMAIN idx.metadata

\* rag_classes.py lines 35-39 and rag_request_with_relevance.py lines 42-43:
\* the file is loaded and the system is ready, or the constructor raises.
Construct ==
  /\ pc = "construct"
  /\ op = "__init__"
  /\ loaded' = Loads(file)
  /\ IF ConstructRaises(loaded')
       THEN /\ pc' = "raised"
            /\ UNCHANGED <<index, relevance_threshold>>
       ELSE /\ index' = loaded'
            /\ relevance_threshold' \in Thresholds
            /\ pc' = "ready"
  /\ UNCHANGED <<op, chunkVars, embedVars, file, top_k, askVars, query_embedding,
                 similarities, similar_chunks, filtered_chunks, prompts, result>>

LoadNext == Construct \/ QueryBegin \/ AskNext

\* RAGWithRelevanceFilter(index_path, relevance_threshold) is called with
\* the path of an index file.
InitLoad ==
  /\ op = "__init__"
  /\ pc = "construct"
  /\ file \in Artifacts(MaxArtifactDocs)
  /\ index = None
  /\ loaded = None
  /\ text = <<>>
  /\ chunk_size = 2
  /\ overlap = 1
  /\ start = 0
  /\ chunks = <<>>
  /\ windows = <<>>
  /\ total_tokens = 0
  /\ embeddings = <<>>
  /\ emb_i = 0
  /\ calls = <<>>
  /\ NoQuery

SpecLoad == InitLoad /\ [][LoadNext]_vars

\* The constructor has returned a system.
Constructed == pc # "construct" /\ ~(op = "__init__" /\ pc = "raised")

\* The index has its top-level keys and every passage has its keys.
StructurallyValid(idx) ==
  /\ IndexFields \subseteq DOMAIN idx
  /\ \A k \in 1..Len(idx.documents) : PassageFields \subseteq DOMAIN idx.documents[k]

\* C14: loading an index file that lacks a required top-level field or a
\* required passage field fails at load time: once the constructor has
\* returned, and so whenever a query runs, the index has every required
\* field.
C14_InvalidArtifactFailsAtLoad ==
  Constructed => StructurallyValid(index)

MaxFileTextLen == 3

\* Lines 226-234: the file is read, or open/read raises and the handler
\* raises in its turn.
ProcessRead ==
  /\ pc = "read"
  /\ op = "process_file"
  /\ \/ \E t \in TextsUpTo(MaxFileTextLen) :
          /\ text' = t
          /\ pc' = "split"
     \/ /\ pc' = "raised"
        /\ UNCHANGED text
  /\ UNCHANGED <<op, chunk_size, overlap, start, chunks, windows, embedVars, index,
                 storeVars, queryVars>>

\* Lines 237 and 240: create_index, then save_index.
ProcessNext ==
  \/ ProcessRead
  \/ SplitNext
  \/ EmbedBegin
  \/ EmbedRun
  \/ EmbedReturn
  \/ CreateIndexReturn
  \/ SaveIndex

\* process_file(input_filename, chunk_size, overlap) is called on a new
\* indexer.
InitProcess ==
  /\ op = "process_file"
  /\ pc = "read"
  /\ text = <<>>
  /\ chunk_size \in 2..MaxDocChunkSize
  /\ overlap \in 1..(chunk_size - 1)
  /\ start = 0
  /\ chunks = <<>>
  /\ windows = <<>>
  /\ total_tokens = 0
  /\ embeddings = <<>>
  /\ emb_i = 0
  /\ calls = <<>>
  /\ index = None
  /\ file = None
  /\ loaded = None
  /\ NoQuery

SpecProcess == InitProcess /\ [][ProcessNext]_vars

(***************************************************************************)
(* Claims about building an index.                                         *)
(***************************************************************************)
\* The first non-empty embedding of a list, or <<>> when there is none.
RECURSIVE FirstSuccessful(_)
FirstSuccessful(embs) ==
  IF embs = <<>> THEN <<>>
  ELSE IF Head(embs) # <<>> THEN Head(embs) ELSE FirstSuccessful(Tail(embs))

\* C13: in every index create_index returns, metadata.embedding_dimension
\* is the length of the first successful (non-empty) embedding in passage
\* order, and every non-empty embedding has that length, also when the
\* embedding of the first passage failed and a later one succeeded.
C13_DimensionOfFirstSuccessful ==
  (op = "create_index" /\ pc = "indexed") =>
    /\ index.metadata.embedding_dimension =
         Len(FirstSuccessful([k \in 1..Len(index.documents) |->
                                index.documents[k].embedding]))
    /\ \A k \in 1..Len(index.documents) :
         index.documents[k].embedding # <<>> =>
           Len(index.documents[k].embedding) = index.metadata.embedding_dimension

\* C15: when the very first embedding call of an index build fails because
\* of authentication or configuration, the build aborts: create_index
\* raises and returns no index, and no further call is made.
C15_FirstCallDeniedAborts ==
  (op = "create_index" /\ calls # <<>> /\ calls[1].outcome = Denied) =>
    /\ pc = "raised"
    /\ Len(calls) = 1
    /\ index = None

\* C16: process_file is all-or-nothing: when the document cannot be read or
\* the embedding stage raises, process_file raises, no embedding call is
\* made after the failure and no index file is written; a file is written
\* only with the index of a build in which every chunk had its call.
C16_ProcessFileAllOrNothing ==
  /\ [](op = "process_file" =>
          /\ pc = "raised" => (file = None /\ index = None /\ calls = <<>>)
          /\ file # None =>
               /\ pc = "saved"
               /\ Len(calls) = Len(chunks)
               /\ file = Dumps(index)
               /\ Len(index.documents) = Len(chunks))
  /\ [][op = "process_file" => pc # "raised"]_vars

\* The embedding stage of process_file raised after the document was read
\* and split into chunks.
C16_Witness ==
  /\ op = "process_file"
  /\ pc = "raised"
  /\ chunks # <<>>
  /\ file = None

(***************************************************************************)
(* One indexer object builds several indexes.                              *)
(***************************************************************************)
\* The running total up to which one more index is built.
MaxTotalTokens == 3

\* The longest text of a later create_index call.
MaxAgainTextLen == 2

\* create_index(text, chunk_size, overlap) is called again on the indexer
\* that returned an index: the locals are new, self.total_tokens (line 32,
\* set by the constructor only) is what the builds before left.
CreateIndexAgain ==
  /\ op = "create_index"
  /\ pc = "indexed"
  /\ total_tokens < MaxTotalTokens
  /\ text' \in TextsUpTo(MaxAgainTextLen)
  /\ chunk_size' \in 2..MaxDocChunkSize
  /\ overlap' \in 1..(chunk_size' - 1)
  /\ start' = 0
  /\ chunks' = <<>>
  /\ windows' = <<>>
  /\ pc' = "split"
  /\ UNCHANGED <<op, embedVars, index, storeVars, queryVars>>

AgainNext == IndexNext \/ CreateIndexAgain

SpecAgain == InitIndex /\ [][AgainNext]_vars

\* The tokens reported by a sequence of embedder.run calls.
RECURSIVE SumTokens(_)
SumTokens(cs) ==
  IF cs = <<>> THEN 0
  ELSE (IF Head(cs).outcome.ok THEN Head(cs).outcome.tokens ELSE 0) + SumTokens(Tail(cs))

\* C21: metadata.total_tokens_used of an index create_index returns is the
\* sum of the token counts reported by the embedding calls made while
\* building that index (a failed call adds nothing), also for the second
\* and later indexes built with the same indexer object.
C21_TokensOfThisBuild ==
  (op = "create_index" /\ pc = "indexed") =>
    index.metadata.total_tokens_used = SumTokens(calls)

(***************************************************************************)
(* Claims about the query embedding.                                       *)
(***************************************************************************)
\* C22: every query embedding is produced with the query-side embedding
\* variant and never with the document-side one: in search_relevant_chunks,
\* ask and ask_with_filter exactly one embedding call is made, and the model
\* it requests is "text-search-query".
C22_QueryEmbeddingIsQuerySide ==
  op \in (QueryOps \cup CallOps) =>
    /\ Len(calls) = 1
    /\ calls[1].model =
         <<"t", "e", "x", "t", "-", "s", "e", "a", "r", "c", "h", "-", "q", "u", "e", "r", "y">>
    /\ calls[1].model # DocModel
    /\ calls[1].outcome.ok => query_embedding = calls[1].outcome.embedding

\* search_relevant_chunks has returned passages after its query was embedded.
C22_Witness ==
  /\ op = "search_relevant_chunks"
  /\ pc = "returned"
  /\ calls # <<>>
  /\ calls[1].outcome.ok
  /\ result # <<>>

(***************************************************************************)
(* YandexRAGSystem._cosine_similarity called on any two vectors.           *)
(***************************************************************************)
\* The longest vector.
MaxDim == 2

\* The components of a vector, in tenths.
VecValues == {-10, 0, 7, 10}

Vectors == UNION {[1..n -> VecValues] : n \in 0..MaxDim}

\* Line 70: np.dot of two one-dimensional arrays of different sizes raises
\* ValueError.
DotRaises(vec1, vec2) == Len(vec1) # Len(vec2)

\* Lines 60-70 with vec1 = embeddings[1] and vec2 = embeddings[2]: 0.0 when
\* a norm is 0 (lines 67-68), else the quotient of line 70.
CosineCall ==
  /\ op = "_cosine_similarity"
  /\ pc = "call"
  /\ LET vec1 == embeddings[1]
         vec2 == embeddings[2]
     IN IF Dot(vec1, vec1) = 0 \/ Dot(vec2, vec2) = 0
          THEN /\ result' = 0
               /\ pc' = "returned"
          ELSE IF DotRaises(vec1, vec2)
            THEN /\ result' = None
                 /\ pc' = "raised"
            ELSE /\ result' = CosineSimilarity(vec1, vec2)
                 /\ pc' = "returned"
  /\ UNCHANGED <<op, chunkVars, embedVars, index, storeVars, relevance_threshold, top_k>>
  /\ UNCHANGED <<askVars, query_embedding, similarities, similar_chunks, filtered_chunks, prompts>>

\* _cosine_similarity(vec1, vec2) is called with any two vectors.
InitCosine ==
  /\ op = "_cosine_similarity"
  /\ pc = "call"
  /\ text = <<>>
  /\ chunk_size = 2
  /\ overlap = 1
  /\ start = 0
  /\ chunks = <<>>
  /\ windows = <<>>
  /\ total_tokens = 0
  /\ embeddings \in [1..2 -> Vectors]
  /\ emb_i = 0
  /\ calls = <<>>
  /\ index = None
  /\ file = None
  /\ loaded = None
  /\ NoQuery

SpecCosine == InitCosine /\ [][CosineCall]_vars

\* Every component of v is 0: the norm of v is 0.
ZeroNorm(v) == \A k \in 1..Len(v) : v[k] = 0

\* C23: _cosine_similarity returns exactly 0.0 whenever either argument has
\* zero norm (the first, the second or both), without dividing by zero or
\* raising, and for any two vectors its outcome is the one it has with the
\* arguments swapped.
C23_ZeroNormAndSymmetry ==
  (op = "_cosine_similarity" /\ pc # "call") =>
    LET vec1 == embeddings[1]
        vec2 == embeddings[2]
    IN /\ (ZeroNorm(vec1) \/ ZeroNorm(vec2)) => (pc = "returned" /\ result = 0)
       /\ pc = "returned" =>
            /\ ZeroNorm(vec1) \/ ZeroNorm(vec2) \/ ~DotRaises(vec2, vec1)
            /\ result = CosineSimilarity(vec2, vec1)
       /\ pc = "raised" => DotRaises(vec2, vec1)

\* 0.0 was returned for a zero vector against a longer non-zero one.
C23_Witness ==
  /\ op = "_cosine_similarity"
  /\ pc = "returned"
  /\ embeddings[1] = <<0>>
  /\ embeddings[2] = <<7, 10>>
  /\ result = 0

(***************************************************************************)
(* More claims about split_text_into_chunks.                               *)
(***************************************************************************)
\* The trimmed texts of the windows ws of t that are not empty, in order.
RECURSIVE NonEmptyTexts(_, _)
NonEmptyTexts(t, ws) ==
  IF ws = <<>> THEN <<>>
  ELSE LET chunk == Strip(Slice(t, Head(ws).start, Head(ws).end))
       IN (IF chunk = <<>> THEN <<>> ELSE <<chunk>>) \o NonEmptyTexts(t, Tail(ws))

\* C24: split_text_into_chunks never returns an empty chunk: a window whose
\* text is empty after trimming is dropped, the other windows give one chunk
\* each, and an empty or whitespace-only text yields the empty sequence.
C24_NoEmptyChunk ==
  /\ \A k \in 1..Len(chunks) : chunks[k] # <<>>
  /\ (op = "split_text_into_chunks" /\ pc = "split"
        /\ \A k \in 1..Len(text) : text[k] \in Whitespace) =>
       Normalize(text) = <<>>
  /\ (pc \in {"while", "window", "chunked"} /\ text = <<>>) => chunks = <<>>
  /\ (pc \in {"while", "chunked"} /\ WindowsComplete) =>
       chunks = NonEmptyTexts(text, windows)

\* The chunks of a text were returned and one of its windows was dropped.
C24_Witness ==
  /\ op = "split_text_into_chunks"
  /\ pc = "chunked"
  /\ WindowsComplete
  /\ chunks # <<>>
  /\ Len(chunks) < Len(windows)

\* The longest text and the largest chunk_size of the calls whose windows
\* are compared with the sentence boundaries of the text.
MaxBoundaryTextLen == 5
MaxBoundaryChunkSize == 4

\* The characters of these texts: the three sentence terminators, each of
\* which ends a sentence only when a space follows it, and the space.
BoundaryChars == {".", "!", "?", " "}

\* The texts line 48 can produce: no whitespace but single spaces between
\* other characters.
NormalizedTexts(n) ==
  {t \in UNION {[1..k -> BoundaryChars] : k \in 0..n} : Normalize(t) = t}

\* split_text_into_chunks(text, chunk_size, overlap) is called with a text
\* that sentence terminators of all three kinds can occur in.
InitBoundary ==
  /\ op = "split_text_into_chunks"
  /\ pc = "split"
  /\ text \in NormalizedTexts(MaxBoundaryTextLen)
  /\ chunk_size \in 2..MaxBoundaryChunkSize
  /\ overlap \in 1..(chunk_size - 1)
  /\ start = 0
  /\ chunks = <<>>
  /\ windows = <<>>
  /\ total_tokens = 0
  /\ embeddings = <<>>
  /\ emb_i = 0
  /\ calls = <<>>
  /\ index = None
  /\ file = None
  /\ loaded = None
  /\ NoQuery

SpecBoundary == InitBoundary /\ [][SplitNext]_vars

\* The positions inside text[s:e] of a sentence terminator that is followed
\* by a space inside text[s:e].
Terminators(t, s, e) ==
  {p \in SlicePositions(t, s, e) :
     /\ t[p + 1] \in {".", "!", "?"}
     /\ (p + 1) \in SlicePositions(t, s, e)
     /\ t[p + 2] = " "}

\* C25: a window that does not reach the end of the text (start + chunk_size
\* is before the end) and contains a sentence terminator followed by a space
\* ends just after the last such terminator inside it; one that contains
\* none keeps the hard cut at start + chunk_size; a window that reaches the
\* end of the text is never shortened.
C25_WindowEndsAtSentenceBoundary ==
  \A i \in 1..Len(windows) :
    LET s == windows[i].start
        hard == s + chunk_size
        found == Terminators(text, s, hard)
    IN IF hard < Len(text) /\ found # {}
         THEN windows[i].end = 1 + CHOOSE p \in found : \A q \in found : q <= p
         ELSE windows[i].end = hard

\* The first window of '. ! ?' with chunk_size 4 holds two terminators and
\* was cut after the second.
C25_Witness ==
  /\ op = "split_text_into_chunks"
  /\ pc = "chunked"
  /\ text = <<".", " ", "!", " ", "?">>
  /\ chunk_size = 4
  /\ windows # <<>>
  /\ windows[1] = [start |-> 0, end |-> 3]

(***************************************************************************)
(* Claims about the grounded prompt.                                       *)
(***************************************************************************)
\* The position of the part named name in parts, or 0.
PartAt(parts, name) ==
  IF \E j \in 1..Len(parts) : parts[j].part = name
    THEN CHOOSE j \in 1..Len(parts) : parts[j].part = name
    ELSE 0

\* The passages of a grounded prompt are the chunks handed to generation,
\* in their order, each with its 1-based index and its similarity.
PassagesInRankOrder(p, context_chunks) ==
  LET fragments == p.parts[PartAt(p.parts, "context")].fragments
  IN /\ Len(fragments) = Len(context_chunks)
     /\ \A k \in 1..Len(fragments) :
          /\ fragments[k].number = k
          /\ fragments[k].similarity = context_chunks[k].similarity
          /\ fragments[k].text = context_chunks[k].text
     /\ \A k \in 1..(Len(fragments) - 1) :
          fragments[k].similarity >= fragments[k + 1].similarity

\* C26: the grounded prompt built by generate_answer has its parts in this
\* order: the fixed instruction block first, then every retrieved passage in
\* rank order, each with its 1-based rank index and its similarity score,
\* then the question last.
C26_PromptOrder ==
  (op \in CallOps /\ pc = "returned" /\ prompts # <<>>
     /\ prompts[1].prompt.kind = "context") =>
    LET p == prompts[1].prompt
    IN /\ PartAt(p.parts, "instructions") = 1
       /\ PartAt(p.parts, "context") = 2
       /\ PassagesInRankOrder(p, result.context_chunks)
       /\ PartAt(p.parts, "question") = Len(p.parts)

\* What holds of the grounded prompt: the passages come in rank order with
\* index and score, and the question comes after them.
GroundedPromptPassages ==
  (op \in CallOps /\ pc = "returned" /\ prompts # <<>>
     /\ prompts[1].prompt.kind = "context") =>
    LET p == prompts[1].prompt
    IN /\ PassagesInRankOrder(p, result.context_chunks)
       /\ PartAt(p.parts, "context") < PartAt(p.parts, "question")

(***************************************************************************)
(* Claims about the spans create_index records.                            *)
(***************************************************************************)
\* The windows ws of t whose trimmed text is not empty: window k of these is
\* the window chunk k was cut from.
RECURSIVE KeptWindows(_, _)
KeptWindows(t, ws) ==
  IF ws = <<>> THEN <<>>
  ELSE (IF Strip(Slice(t, Head(ws).start, Head(ws).end)) = <<>>
          THEN <<>> ELSE <<Head(ws)>>) \o KeptWindows(t, Tail(ws))

\* The positions text[w.start:w.end] begins and ends at.
WindowLo(w) == PyIdx(w.start, Len(text))

WindowHi(w) == PyIdx(w.end, Len(text))

\* The span recorded with passage k is the window passage k was cut from.
SpanIsWindow(k) ==
  LET w == KeptWindows(text, windows)[k]
  IN /\ index.documents[k].char_start = WindowLo(w)
     /\ index.documents[k].char_end = WindowHi(w)

\* The window of passage k begins before the window of passage k - 1 ends.
OverlapsPrevious(k) ==
  LET kept == KeptWindows(text, windows)
  IN k >= 2 /\ WindowLo(kept[k]) < WindowHi(kept[k - 1])

\* The recorded span is the running sum of the chunk lengths.
SpanIsRunningSum ==
  /\ index.documents # <<>> => index.documents[1].char_start = 0
  /\ \A k \in 1..(Len(index.documents) - 1) :
       index.documents[k + 1].char_start = index.documents[k].char_end
  /\ \A k \in 1..Len(index.documents) :
       index.documents[k].char_end - index.documents[k].char_start =
         Len(index.documents[k].text)

\* C27, as stated: in an index create_index returns the recorded span of a
\* passage is the running sum of chunk lengths, and therefore differs from
\* the passage's true window in the normalized text whenever that window
\* overlaps the window before it.
C27_SpanDiffersWheneverOverlap ==
  (op = "create_index" /\ pc = "indexed" /\ WindowsComplete) =>
    /\ SpanIsRunningSum
    /\ \A k \in 1..Len(index.documents) : OverlapsPrevious(k) => ~SpanIsWindow(k)

\* C27, amended: the recorded span of a passage is the running sum of chunk
\* lengths (the first starts at 0, each next starts where the one before
\* ends, each is as long as its text); when the windows of two consecutive
\* passages overlap, the span of at least one passage of the index differs
\* from its true window, not necessarily that of every such passage.
C27_SpanIsRunningSum ==
  (op = "create_index" /\ pc = "indexed" /\ WindowsComplete) =>
    /\ SpanIsRunningSum
    /\ (\E k \in 1..Len(index.documents) : OverlapsPrevious(k)) =>
         \E k \in 1..Len(index.documents) : ~SpanIsWindow(k)

\* An index of three passages: the window of the third overlaps the second
\* and its span is its window, while the span of the second is not.
C27_Witness ==
  /\ op = "create_index"
  /\ pc = "indexed"
  /\ WindowsComplete
  /\ Len(index.documents) = 3
  /\ OverlapsPrevious(3)
  /\ SpanIsWindow(3)
  /\ ~SpanIsWindow(2)

\* C28: for every text and every (chunk_size, overlap) with
\* 0 < overlap < chunk_size the window start of split_text_into_chunks is
\* never negative: it is within 0..len(text) in every iteration, also after
\* a window that was shortened to a sentence boundary found fewer than
\* overlap characters from the start of the text.
C28_StartNeverNegative ==
  /\ pc \in {"while", "window"} => start >= 0
  /\ pc = "window" => start <= Len(text)
  /\ \A i \in 1..Len(windows) : windows[i].start \in 0..Len(text)

\* What holds of the start: it is below the end of the text in every
\* iteration, and the first window starts at 0.
StartBelowEnd ==
  /\ pc = "window" => start < Len(text)
  /\ \A i \in 1..Len(windows) : windows[i].start < Len(text)
  /\ windows # <<>> => windows[1].start = 0

\* c lies in t as a run of consecutive characters.
IsSubstring(c, t) ==
  \E p \in 1..(Len(t) - Len(c) + 1) : SubSeq(t, p, p + Len(c) - 1) = c

\* C29: every chunk split_text_into_chunks returns is a contiguous substring
\* of the normalized text and has at most chunk_size characters.
C29_ChunksAreBoundedSubstrings ==
  (op = "split_text_into_chunks" /\ pc # "split") =>
    \A k \in 1..Len(chunks) :
      /\ Len(chunks[k]) <= chunk_size
      /\ IsSubstring(chunks[k], text)

\* Two chunks were returned, one of chunk_size characters and a shorter one.
C29_Witness ==
  /\ op = "split_text_into_chunks"
  /\ pc = "chunked"
  /\ Len(chunks) >= 2
  /\ \E k \in 1..Len(chunks) : Len(chunks[k]) = chunk_size
  /\ \E k \in 1..Len(chunks) : Len(chunks[k]) < chunk_size

(***************************************************************************)
(* Claims about the result of ask_with_filter.                             *)
(***************************************************************************)
\* The number of passages that have an embedding.
ScoredCount ==
  Cardinality({k \in 1..Len(documents) : documents[k].embedding # <<>>})

\* The embedding of the passage with this id.
EmbeddingOf(id) ==
  documents[CHOOSE k \in 1..Len(documents) : documents[k].id = id].embedding

\* C30: in every result of ask_with_filter, filtered_out plus the number of
\* context_chunks is the number of top-k candidates, min(top_k, number of
\* scored passages); relevance_scores has one entry per context chunk, in
\* the same order, equal to that chunk's similarity, each at least the
\* threshold and in non-increasing order.
C30_ResultCountsAndScores ==
  (op = "ask_with_filter" /\ pc = "returned") =>
    LET scores == result.relevance_scores
        context == result.context_chunks
    IN /\ result.filtered_out + Len(context) = Min2(top_k, ScoredCount)
       /\ Len(scores) = Len(context)
       /\ \A k \in 1..Len(context) :
            /\ scores[k] = context[k].similarity
            /\ scores[k] = CosineSimilarity(query_embedding, EmbeddingOf(context[k].id))
            /\ scores[k] >= relevance_threshold
       /\ \A k \in 1..(Len(scores) - 1) : scores[k] >= scores[k + 1]

\* A grounded result with two context chunks of different scores and one
\* candidate filtered out.
C30_Witness ==
  /\ op = "ask_with_filter"
  /\ pc = "returned"
  /\ top_k = 3
  /\ Len(result.context_chunks) = 2
  /\ result.filtered_out = 1
  /\ result.relevance_scores[1] > result.relevance_scores[2]

=============================================================================
